---- MODULE Spec2Model ----
(***************************************************************************)
(* A model of src/src/CodeGen_Vulkan_Dev.cpp: the SPIR-V emitter           *)
(* (CodeGen_Vulkan_Dev::SPIRVEmitter) and the module assembler             *)
(* (init_module / add_kernel / compile_to_src), in the build in which      *)
(* WITH_VULKAN is defined.                                                 *)
(*                                                                         *)
(* A 32-bit word is held as the integer congruent to it modulo 2^32 in     *)
(* -2^31 .. 2^31-1 (TLC's integers are 32 bits wide), so 0xffffffff is -1. *)
(* A std::vector<uint32_t> section is held as the sequence of the word     *)
(* groups appended to it, one group per add_instruction call or per run of *)
(* push_back/insert calls of one instruction; Words() concatenates the     *)
(* groups into the vector itself.                                          *)
(***************************************************************************)
EXTENDS Integers, Sequences, FiniteSets, TLC

VARIABLES emitter, current_kernel_name, final_module, last_op, calls,
          loop, pc, regs, mem, visited

vars == <<emitter, current_kernel_name, final_module, last_op, calls,
          loop, pc, regs, mem, visited>>

(***************************************************************************)
(* Bounds of the model.                                                    *)
(***************************************************************************)
\* The number of calls made on one CodeGen_Vulkan_Dev object in a session.
MaxCalls == 4
\* The number of interner calls and kernels of SpecInterner.
MaxInternerCalls == 3
\* The number of kernels of SpecVisit.
MaxKernels == 2
\* The largest extent of the loops executed.
MaxExtent == 3

(***************************************************************************)
(* Constants of spirv/spirv.h and of the Halide runtime.                   *)
(***************************************************************************)
SpvMagicNumber == 119734787
SpvVersion == 65536
SpvSourceLanguageUnknown == 0
SpvStorageClassFunction == 7
SpvLoopControlMaskNone == 0

Spv ==
    [OpString |-> 7, OpTypeBool |-> 20, OpTypeInt |-> 21, OpTypeFloat |-> 22,
     OpTypeVector |-> 23, OpTypeStruct |-> 30, OpTypePointer |-> 32,
     OpConstant |-> 43, OpConstantNull |-> 46, OpVariable |-> 59,
     OpLoad |-> 61, OpStore |-> 62, OpVectorInsertDynamic |-> 78,
     OpCompositeConstruct |-> 80,
     OpConvertFToU |-> 109, OpConvertFToS |-> 110, OpConvertSToF |-> 111,
     OpConvertUToF |-> 112, OpUConvert |-> 113, OpSConvert |-> 114,
     OpFConvert |-> 115, OpSatConvertSToU |-> 118, OpSatConvertUToS |-> 119,
     OpIAdd |-> 128, OpFAdd |-> 129, OpISub |-> 130, OpFSub |-> 131,
     OpIMul |-> 132, OpFMul |-> 133, OpUDiv |-> 134, OpSDiv |-> 135,
     OpFDiv |-> 136, OpUMod |-> 137, OpSMod |-> 139, OpFMod |-> 141,
     OpLogicalOr |-> 166, OpLogicalAnd |-> 167, OpLogicalNot |-> 168,
     OpSelect |-> 169, OpIEqual |-> 170, OpINotEqual |-> 171,
     OpUGreaterThan |-> 172, OpSGreaterThan |-> 173,
     OpUGreaterThanEqual |-> 174, OpSGreaterThanEqual |-> 175,
     OpULessThan |-> 176, OpSLessThan |-> 177,
     OpULessThanEqual |-> 178, OpSLessThanEqual |-> 179,
     OpFOrdEqual |-> 180, OpFOrdNotEqual |-> 182, OpFOrdLessThan |-> 184,
     OpFOrdGreaterThan |-> 186, OpFOrdLessThanEqual |-> 188,
     OpFOrdGreaterThanEqual |-> 190,
     OpBitwiseOr |-> 197, OpBitwiseXor |-> 198, OpBitwiseAnd |-> 199,
     OpNot |-> 200, OpPhi |-> 245, OpLoopMerge |-> 246, OpLabel |-> 248,
     OpBranch |-> 249, OpBranchConditional |-> 250]

(***************************************************************************)
(* Halide::Type: (code, bits, lanes).                                      *)
(***************************************************************************)
Type(c, b, l) == [code |-> c, bits |-> b, lanes |-> l]
IntT(b) == Type("int", b, 1)
UIntT(b) == Type("uint", b, 1)
FloatT(b) == Type("float", b, 1)
BoolT == Type("uint", 1, 1)
HandleT == Type("handle", 64, 1)

with_lanes(t, l) == [t EXCEPT !.lanes = l]
bytes(t) == (t.bits + 7) \div 8
is_float(t) == t.code = "float"
is_int(t) == t.code = "int"
is_uint(t) == t.code = "uint"
is_bool(t) == t.code = "uint" /\ t.bits = 1
is_int_or_uint(t) == t.code \in {"int", "uint"}
is_vector(t) == t.lanes > 1

\* halide_type_code_t, as Type::code() returns it
TypeCode(t) ==
    CASE t.code = "int" -> 0
      [] t.code = "uint" -> 1
      [] t.code = "float" -> 2
      [] t.code = "handle" -> 3

(***************************************************************************)
(* Words and bytes.                                                        *)
(***************************************************************************)
\* byte k (0..3) of a word, in memory order (little-endian host)
ByteOf(w, k) ==
    CASE k = 0 -> w % 256
      [] k = 1 -> (w \div 256) % 256
      [] k = 2 -> (w \div 65536) % 256
      [] k = 3 -> (w \div 16777216) % 256

\* the word whose bytes in memory order are b
WordOf(b) ==
    b[1] + 256 * b[2] + 65536 * b[3]
      + 16777216 * (IF b[4] >= 128 THEN b[4] - 256 ELSE b[4])

\* the 8 bytes in memory of an int64_t / uint64_t holding v
Int64Bytes(v) ==
    [k \in 1..8 |-> IF k <= 4 THEN ByteOf(v, k - 1)
                    ELSE IF v < 0 THEN 255 ELSE 0]

\* the 4 bytes in memory of an int32_t holding v
Int32Bytes(v) == [k \in 1..4 |-> ByteOf(v, k - 1)]

RECURSIVE Concat(_)
Concat(groups) ==
    IF groups = <<>> THEN <<>>
    ELSE IF Len(groups) = 1 THEN groups[1]
    ELSE Concat(SubSeq(groups, 1, Len(groups) \div 2))
           \o Concat(SubSeq(groups, Len(groups) \div 2 + 1, Len(groups)))

\* the contents of a section: its groups end to end
Words(region) == Concat(region)

\* the first word of an instruction: (word count << 16) | opcode
LeadWord(count, opcode) == count * 65536 + opcode
WordCount(w) == (w \div 65536) % 65536
Opcode(w) == w % 65536

(***************************************************************************)
(* The emitter's state. Beyond the members of SPIRVEmitter the record      *)
(* holds ret (the value the last call returned), err (the error a call     *)
(* threw: "none", "internal" or "user"), junk (the value an uninitialised  *)
(* byte reads as), and two history fields: allocated (the identifiers      *)
(* next_id++ handed out) and const_log (the <<key, identifier>> pairs      *)
(* emit_constant returned).                                                *)
(***************************************************************************)
Names == {"i", "x", "y", "a0", "b0"}

\* uint32_t next_id{0} of CodeGen_Vulkan_Dev.h
FirstId == 0

\* the values uint32_t id, which no constructor sets, may first read as
UninitIds == {0, 4242}

NewEmitter(id0) ==
    [next_id |-> FirstId, id |-> id0,
     type_map |-> <<>>, pair_type_map |-> <<>>,
     pointer_type_map_local |-> <<>>, constant_map |-> <<>>,
     symbol_table |-> [n \in Names |-> <<>>],
     spir_v_header |-> <<>>, spir_v_entrypoints |-> <<>>,
     spir_v_types |-> <<>>, spir_v_kernels |-> <<>>,
     ret |-> 0, err |-> "none", junk |-> 0,
     allocated |-> {}, const_log |-> {}]

\* m[k] = v of a std::map
MapPut(m, k, v) == [x \in (DOMAIN m) \cup {k} |-> IF x = k THEN v ELSE m[x]]

\* internal_error / internal_assert / user_assert: an exception unwinds the
\* call chain, so nothing after it in the chain runs
Throw(st, kind) == IF st.err # "none" THEN st ELSE [st EXCEPT !.err = kind]

\* next_id++
NewId(st) ==
    IF st.err # "none" THEN st
    ELSE [st EXCEPT !.next_id = @ + 1, !.ret = st.next_id,
                    !.allocated = @ \cup {st.next_id}]

\* add_instruction(region, opcode, words), region one of the sections
add_instruction(st, region, opcode, words) ==
    IF st.err # "none" THEN st
    ELSE [st EXCEPT ![region] =
              Append(@, <<LeadWord(1 + Len(words), opcode)>> \o words)]

\* a run of push_back / insert calls appending ws to a section
push_back(st, region, ws) ==
    IF st.err # "none" THEN st
    ELSE [st EXCEPT ![region] = Append(@, ws)]

(***************************************************************************)
(* Type interner.                                                          *)
(***************************************************************************)
\* map_type for lanes == 1 on a miss: the defining instruction by kind
map_scalar_type(st, t) ==
    IF st.err # "none" THEN st
    ELSE IF t \in DOMAIN st.type_map THEN [st EXCEPT !.ret = st.type_map[t]]
    ELSE IF is_float(t) \/ is_bool(t) \/ is_int_or_uint(t)
    THEN LET s1 == NewId(st)
             type_id == s1.ret
             s2 == IF is_float(t)
                   THEN add_instruction(s1, "spir_v_types", Spv.OpTypeFloat,
                                        <<type_id, t.bits>>)
                   ELSE IF is_bool(t)
                   THEN add_instruction(s1, "spir_v_types", Spv.OpTypeBool,
                                        <<type_id>>)
                   ELSE add_instruction(s1, "spir_v_types", Spv.OpTypeInt,
                                        <<type_id, t.bits, 0>>)
         IN [s2 EXCEPT !.type_map = MapPut(@, t, type_id), !.ret = type_id]
    ELSE Throw(st, "internal")

\* map_type as it would be without the type_map.find of a vector type
map_type_without_find(st, t) ==
    IF st.err # "none" THEN st
    ELSE IF t.lanes # 1
    THEN LET s1 == map_scalar_type(st, with_lanes(t, 1))
             s2 == NewId(s1)
             s3 == add_instruction(s2, "spir_v_types", Spv.OpTypeVector,
                                   <<s2.ret, s1.ret, t.lanes>>)
         IN IF s3.err # "none" THEN s3
            ELSE [s3 EXCEPT !.type_map = MapPut(@, t, s2.ret),
                            !.ret = s2.ret]
    ELSE map_scalar_type(st, t)

map_type(st, t) ==
    IF st.err # "none" THEN st
    ELSE IF t \in DOMAIN st.type_map THEN [st EXCEPT !.ret = st.type_map[t]]
    ELSE IF t.lanes # 1
    THEN LET s1 == map_scalar_type(st, with_lanes(t, 1))
             base_id == s1.ret
             s2 == NewId(s1)
             type_id == s2.ret
             s3 == add_instruction(s2, "spir_v_types", Spv.OpTypeVector,
                                   <<type_id, base_id, t.lanes>>)
         IN IF s3.err # "none" THEN s3
            ELSE [s3 EXCEPT !.type_map = MapPut(@, t, type_id),
                            !.ret = type_id]
    ELSE map_scalar_type(st, t)

map_type_to_pair(st, t) ==
    IF st.err # "none" THEN st
    ELSE LET s0 == IF t \in DOMAIN st.pair_type_map THEN st
                   ELSE [st EXCEPT !.pair_type_map = MapPut(@, t, 0)]
         IN IF s0.pair_type_map[t] # 0
            THEN [s0 EXCEPT !.ret = s0.pair_type_map[t]]
            ELSE LET s1 == map_type(s0, t)
                     base_type == s1.ret
                     s2 == NewId(s1)
                     type_id == s2.ret
                     s3 == add_instruction(s2, "spir_v_types",
                               Spv.OpTypeStruct,
                               <<type_id, base_type, base_type>>)
                 IN IF s3.err # "none" THEN s3
                    ELSE [s3 EXCEPT !.pair_type_map = MapPut(@, t, type_id),
                                    !.ret = type_id]

map_pointer_type_local(st, t) ==
    IF st.err # "none" THEN st
    ELSE LET s0 == IF t \in DOMAIN st.pointer_type_map_local THEN st
                   ELSE [st EXCEPT !.pointer_type_map_local = MapPut(@, t, 0)]
         IN IF s0.pointer_type_map_local[t] # 0
            THEN [s0 EXCEPT !.ret = s0.pointer_type_map_local[t]]
            ELSE LET s1 == map_type(s0, t)
                     base_type_id == s1.ret
                     s2 == NewId(s1)
                     ref == s2.ret
                     s3 == IF s2.err # "none" THEN s2
                           ELSE [s2 EXCEPT !.pointer_type_map_local =
                                               MapPut(@, t, ref)]
                     s4 == add_instruction(s3, "spir_v_types",
                               Spv.OpTypePointer,
                               <<ref, SpvStorageClassFunction, base_type_id>>)
                 IN IF s4.err # "none" THEN s4 ELSE [s4 EXCEPT !.ret = ref]

(***************************************************************************)
(* Constant interner.                                                      *)
(***************************************************************************)
\* the std::string key: 4 bytes of type tag, then the literal's bytes
ConstantKey(t, data) ==
    <<TypeCode(t), t.bits, t.lanes % 256, (t.lanes \div 256) % 256>>
      \o [k \in 1..bytes(t) |-> data[k]]

\* the word the i-th pass (i = 0, 1, ...) of the copy loop pushes: memcpy of
\* to_copy bytes from data_temp, which each pass advances by one byte, into
\* an uninitialised uint32_t
ConstantWord(t, data, i, junk) ==
    LET bytes_copied == 4 * i
        to_copy == IF bytes(t) - bytes_copied < 4
                   THEN bytes(t) - bytes_copied ELSE 4
    IN WordOf([k \in 1..4 |-> IF k <= to_copy THEN data[i + k] ELSE junk])

emit_constant(st, t, data) ==
    IF st.err # "none" THEN st
    ELSE LET key == ConstantKey(t, data)
         IN IF key \in DOMAIN st.constant_map
            THEN [st EXCEPT !.ret = st.constant_map[key],
                            !.const_log = @ \cup {<<key, st.constant_map[key]>>}]
            ELSE LET s1 == map_type(st, t)
                     type_id == s1.ret
                     extra_words == (bytes(t) + 3) \div 4
                     s2 == NewId(s1)
                     constant_id == s2.ret
                     s3 == push_back(s2, "spir_v_kernels",
                               <<LeadWord(3 + extra_words, Spv.OpConstant),
                                 type_id, constant_id>>)
                     s4 == push_back(s3, "spir_v_types",
                               [i \in 1..extra_words |->
                                   ConstantWord(t, data, i - 1, st.junk)])
                 IN IF s4.err # "none" THEN s4
                    ELSE [s4 EXCEPT !.ret = constant_id,
                                    !.const_log = @ \cup {<<key, constant_id>>}]

(***************************************************************************)
(* The IR: an expression or a statement is a record with its node kind and *)
(* its fields, named as in IR.h.                                           *)
(***************************************************************************)
IntImm(t, v) == [kind |-> "IntImm", type |-> t, value |-> v]
UIntImm(t, v) == [kind |-> "UIntImm", type |-> t, value |-> v]
\* value is the double's 8 bytes in memory
FloatImm(t, b) == [kind |-> "FloatImm", type |-> t, value |-> b]
Variable(t, n) == [kind |-> "Variable", type |-> t, name |-> n]
BinOp(k, t, a, b) == [kind |-> k, type |-> t, a |-> a, b |-> b]
Not(a) == [kind |-> "Not", type |-> a.type, a |-> a]
Cast(t, v) == [kind |-> "Cast", type |-> t, value |-> v]
Call(t, n, args) == [kind |-> "Call", type |-> t, name |-> n, args |-> args]
Select(c, tv, fv) ==
    [kind |-> "Select", type |-> tv.type, condition |-> c,
     true_value |-> tv, false_value |-> fv]
Load(t, n, index) == [kind |-> "Load", type |-> t, name |-> n, index |-> index]
Let(n, v, body) ==
    [kind |-> "Let", type |-> body.type, name |-> n, value |-> v, body |-> body]
Ramp(base, stride, l) ==
    [kind |-> "Ramp", type |-> with_lanes(base.type, l), base |-> base,
     stride |-> stride, lanes |-> l]
Broadcast(v, l) ==
    [kind |-> "Broadcast", type |-> with_lanes(v.type, l), value |-> v,
     lanes |-> l]
LetStmt(n, v, body) == [kind |-> "LetStmt", name |-> n, value |-> v, body |-> body]
For(n, mn, ext, ft, body) ==
    [kind |-> "For", name |-> n, min |-> mn, extent |-> ext, for_type |-> ft,
     body |-> body]
Store(n, v, index) == [kind |-> "Store", name |-> n, value |-> v, index |-> index]
IfThenElse(c, tc, ec) ==
    [kind |-> "IfThenElse", condition |-> c, then_case |-> tc, else_case |-> ec]
Evaluate(v) == [kind |-> "Evaluate", value |-> v]
\* a statement the emitter looks no further into
Leaf(k) == [kind |-> k]

BinOpKinds ==
    {"Add", "Sub", "Mul", "EQ", "NE", "LT", "LE", "GT", "GE", "And", "Or"}

\* The opcode visit(Add) ... visit(Or) hand to visit_binop; 0 where the
\* visit raises an internal error instead.
BinOpcode(n) ==
    LET f == is_float(n.type)
        at == n.a.type
        Cmp(fo, so, uo) == IF is_float(at) THEN fo
                           ELSE IF is_int(at) THEN so
                           ELSE IF is_uint(at) THEN uo ELSE 0
    IN CASE n.kind = "Add" -> IF f THEN Spv.OpFAdd ELSE Spv.OpIAdd
         [] n.kind = "Sub" -> IF f THEN Spv.OpFSub ELSE Spv.OpISub
         [] n.kind = "Mul" -> IF f THEN Spv.OpFMul ELSE Spv.OpIMul
         [] n.kind = "EQ" -> IF f THEN Spv.OpFOrdEqual ELSE Spv.OpIEqual
         [] n.kind = "NE" -> IF f THEN Spv.OpFOrdNotEqual ELSE Spv.OpINotEqual
         [] n.kind = "LT" ->
              Cmp(Spv.OpFOrdLessThan, Spv.OpSLessThan, Spv.OpULessThan)
         [] n.kind = "LE" ->
              Cmp(Spv.OpFOrdLessThanEqual, Spv.OpSLessThanEqual,
                  Spv.OpULessThanEqual)
         [] n.kind = "GT" ->
              Cmp(Spv.OpFOrdGreaterThan, Spv.OpSGreaterThan,
                  Spv.OpUGreaterThan)
         [] n.kind = "GE" ->
              Cmp(Spv.OpFOrdGreaterThanEqual, Spv.OpSGreaterThanEqual,
                  Spv.OpUGreaterThanEqual)
         [] n.kind = "And" -> Spv.OpLogicalAnd
         [] n.kind = "Or" -> Spv.OpLogicalOr

\* is_zero of IROperator.h: a literal zero, also under casts and broadcasts
RECURSIVE is_zero(_)
is_zero(e) ==
    CASE e.kind \in {"IntImm", "UIntImm"} -> e.value = 0
      [] e.kind = "FloatImm" -> \A k \in 1..8 : e.value[k] = 0
      [] e.kind \in {"Cast", "Broadcast"} -> is_zero(e.value)
      [] OTHER -> FALSE

\* lower_euclidean_div / lower_euclidean_mod of CodeGen_Internal.h, for the
\* unsigned operands the model feeds them: the round-to-zero intrinsic
lower_euclidean_div(a, b) == Call(a.type, "div_round_to_zero", <<a, b>>)
lower_euclidean_mod(a, b) == Call(a.type, "mod_round_to_zero", <<a, b>>)

\* extract_lane of Deinterleave.h, for the vector expressions of the model
RECURSIVE extract_lane(_, _)
extract_lane(e, lane) ==
    CASE e.kind = "Broadcast" -> e.value
      [] e.kind = "Call" ->
           Call(with_lanes(e.type, 1), e.name,
                [k \in 1..Len(e.args) |-> extract_lane(e.args[k], lane)])
      [] OTHER -> e

(***************************************************************************)
(* Scope<uint32_t> and ScopedBinding of Scope.h.                           *)
(***************************************************************************)
ScopePush(st, name, value) ==
    IF st.err # "none" THEN st
    ELSE [st EXCEPT !.symbol_table[name] = Append(@, value)]

\* ~ScopedBinding: runs on every exit path, unwinding included
ScopePop(st, name) ==
    [st EXCEPT !.symbol_table[name] = SubSeq(@, 1, Len(@) - 1)]

\* Scope::get: id = symbol_table.get(name); an unbound name is an
\* internal error
ScopeGet(st, name) ==
    IF st.err # "none" THEN st
    ELSE IF st.symbol_table[name] = <<>> THEN Throw(st, "internal")
    ELSE [st EXCEPT !.id =
              st.symbol_table[name][Len(st.symbol_table[name])]]

\* id = next_id++
FreshResult(st) ==
    IF st.err # "none" THEN st
    ELSE LET s1 == NewId(st) IN [s1 EXCEPT !.id = s1.ret]

(***************************************************************************)
(* The visitor. A visit method is held as the list of its statements, in   *)
(* order, each a tuple naming what the statement does; Run executes such a *)
(* list on the emitter state with a frame fr of the method's locals, named *)
(* as in the source. An operand is K(n), the number n, V(x), the local x,  *)
(* ID, the member id, or VS(x), the words of the local array x.            *)
(***************************************************************************)
K(n) == <<"const", n>>
V(x) == <<"local", x>>
VS(x) == <<"locals", x>>
ID == <<"id">>
\* the local x plus k, as first_id++ leaves it after k passes
VO(x, k) == <<"offset", x, k>>

Operand(r, x) ==
    CASE x[1] = "const" -> <<x[2]>>
      [] x[1] = "local" -> <<r.fr[x[2]]>>
      [] x[1] = "locals" -> r.fr[x[2]]
      [] x[1] = "id" -> <<r.st.id>>
      [] x[1] = "offset" -> <<r.fr[x[2]] + x[3]>>

RECURSIVE Operands(_, _)
Operands(r, xs) ==
    IF xs = <<>> THEN <<>>
    ELSE Operand(r, Head(xs)) \o Operands(r, Tail(xs))

\* uint32_t name = value, continuing in emitter state s
Bind(s, r, name, value) == [r EXCEPT !.st = s, !.fr = MapPut(@, name, value)]
\* uint32_t name = f(...), s the state f left and s.ret what it returned
BindRet(s, r, name) == Bind(s, r, name, s.ret)

\* the statements of visit_binop(t, a, b, opcode)
visit_binop(t, a, b, opcode) ==
    <<  <<"map_type", t, "type_id">>,
        <<"accept", a>>, <<"get_id", "a_id">>,
        <<"accept", b>>, <<"get_id", "b_id">>,
        <<"fresh_id">>,
        <<"add_instruction", "spir_v_kernels", opcode,
          <<V("type_id"), ID, V("a_id"), V("b_id")>> >> >>

\* the statements of scalarize(e)
scalarize(e) ==
    IF ~is_vector(e.type) THEN << <<"throw", "internal">> >>
    ELSE <<  <<"map_type", e.type, "type_id">>,
             <<"new_id", "result_id">>,
             <<"add_instruction", "spir_v_kernels", Spv.OpConstantNull,
               <<V("type_id"), V("result_id")>> >> >>
         \o Concat([i \in 1..e.type.lanes |->
              <<  <<"accept", extract_lane(e, i - 1)>>,
                  <<"new_id", "composite_vec">>,
                  <<"add_instruction", "spir_v_kernels",
                    Spv.OpVectorInsertDynamic,
                    <<V("type_id"), V("composite_vec"), K(i - 1),
                      V("result_id"), ID>> >>,
                  <<"let", "result_id", V("composite_vec")>> >>])
         \o << <<"set_id", V("result_id")>> >>

\* the statements of emit_if_then_else(condition, then_case, else_case);
\* the PhiNodeInputs it returns is left in the local phi_inputs
emit_if_then_else(condition, then_case, else_case) ==
    <<  <<"accept", condition>>, <<"get_id", "cond_id">>,
        <<"new_id", "then_label_id">>,
        <<"new_id", "else_label_id">>,
        <<"new_id", "merge_label_id">>,
        <<"add_instruction", "spir_v_kernels", Spv.OpBranchConditional,
          <<V("cond_id"), V("then_label_id"), V("else_label_id")>> >>,
        <<"add_instruction", "spir_v_kernels", Spv.OpLabel,
          <<V("then_label_id")>> >>,
        <<"accept", then_case>>, <<"get_id", "then_id">>,
        <<"add_instruction", "spir_v_kernels", Spv.OpBranch,
          <<V("merge_label_id")>> >>,
        <<"add_instruction", "spir_v_kernels", Spv.OpLabel,
          <<V("else_label_id")>> >>,
        <<"accept", else_case>>, <<"get_id", "else_id">>,
        <<"add_instruction", "spir_v_kernels", Spv.OpLabel,
          <<V("merge_label_id")>> >>,
        <<"array", "phi_inputs",
          <<V("then_id"), V("then_label_id"), V("else_id"),
            V("else_label_id")>> >> >>

\* the statements of visit(const Call *)
visit_Call(op) ==
    CASE op.name = "gpu_thread_barrier" -> <<>>
      [] op.name \in {"bitwise_and", "bitwise_xor", "bitwise_or"} ->
           IF Len(op.args) # 2 THEN << <<"throw", "internal">> >>
           ELSE visit_binop(op.type, op.args[1], op.args[2],
                    CASE op.name = "bitwise_and" -> Spv.OpBitwiseAnd
                      [] op.name = "bitwise_xor" -> Spv.OpBitwiseXor
                      [] op.name = "bitwise_or" -> Spv.OpBitwiseOr)
      [] op.name = "bitwise_not" ->
           IF Len(op.args) # 1 THEN << <<"throw", "internal">> >>
           ELSE <<  <<"map_type", op.type, "type_id">>,
                    <<"accept", op.args[1]>>, <<"get_id", "arg_id">>,
                    <<"fresh_id">>,
                    <<"add_instruction", "spir_v_kernels", Spv.OpNot,
                      <<V("type_id"), ID, V("arg_id")>> >> >>
      [] op.name = "reinterpret" -> <<>>
      [] op.name = "if_then_else" ->
           IF is_vector(op.type) THEN scalarize(op)
           ELSE IF Len(op.args) # 3 THEN << <<"throw", "internal">> >>
           ELSE emit_if_then_else(op.args[1], op.args[2], op.args[3])
                \o <<  <<"map_type", op.type, "type_id">>,
                       <<"fresh_id">>,
                       <<"push_back", "spir_v_kernels",
                         <<K(LeadWord(7, Spv.OpPhi)), V("type_id"), ID,
                           VS("phi_inputs")>> >> >>
      [] op.name \in {"div_round_to_zero", "mod_round_to_zero"} ->
           IF Len(op.args) # 2 \/ ~is_int_or_uint(op.type)
           THEN << <<"throw", "internal">> >>
           ELSE visit_binop(op.type, op.args[1], op.args[2],
                    IF op.name = "div_round_to_zero"
                    THEN (IF is_int(op.type) THEN Spv.OpSDiv ELSE Spv.OpUDiv)
                    ELSE (IF is_int(op.type) THEN Spv.OpSMod ELSE Spv.OpUMod))
      [] OTHER -> <<>>

\* the statements of visit(const For *)
visit_For(op) ==
    IF op.for_type # "Serial" THEN << <<"throw", "internal">> >>
    ELSE
    <<  <<"map_type", IntT(32), "index_type_id">>,
        <<"map_pointer_type_local", IntT(32), "index_var_type_id">>,
        <<"accept", op.min>>, <<"get_id", "min_id">>,
        <<"accept", op.extent>>, <<"get_id", "extent_id">>,
        <<"new_id", "max_id">>,
        <<"add_instruction", "spir_v_kernels", Spv.OpIAdd,
          <<V("index_type_id"), V("max_id"), V("min_id"), V("extent_id")>> >>,
        <<"new_id", "loop_var_id">>,
        <<"add_instruction", "spir_v_kernels", Spv.OpVariable,
          <<V("index_var_type_id"), V("loop_var_id"), V("min_id")>> >>,
        <<"new_id", "header_label_id">>,
        <<"new_id", "loop_top_label_id">>,
        <<"new_id", "body_label_id">>,
        <<"new_id", "continue_label_id">>,
        <<"new_id", "merge_label_id">>,
        <<"add_instruction", "spir_v_kernels", Spv.OpLabel,
          <<V("header_label_id")>> >>,
        <<"add_instruction", "spir_v_kernels", Spv.OpLoopMerge,
          <<V("merge_label_id"), V("continue_label_id"),
            K(SpvLoopControlMaskNone)>> >>,
        <<"add_instruction", "spir_v_kernels", Spv.OpBranch,
          <<V("loop_top_label_id")>> >>,
        <<"add_instruction", "spir_v_kernels", Spv.OpLabel,
          <<V("loop_top_label_id")>> >>,
        <<"new_id", "cur_index_id">>,
        <<"add_instruction", "spir_v_kernels", Spv.OpLoad,
          <<V("index_type_id"), V("cur_index_id"), V("loop_var_id")>> >>,
        <<"new_id", "loop_test_id">>,
        <<"add_instruction", "spir_v_kernels", Spv.OpSLessThanEqual,
          <<V("loop_test_id"), V("cur_index_id"), V("max_id")>> >>,
        <<"add_instruction", "spir_v_kernels", Spv.OpBranchConditional,
          <<V("loop_test_id"), V("body_label_id"), V("merge_label_id")>> >>,
        <<"add_instruction", "spir_v_kernels", Spv.OpLabel,
          <<V("body_label_id")>> >>,
        <<"push_binding", op.name, V("cur_index_id")>>,
        <<"accept", op.body>>,
        <<"pop_binding", op.name>>,
        <<"add_instruction", "spir_v_kernels", Spv.OpBranch,
          <<V("continue_label_id")>> >>,
        <<"add_instruction", "spir_v_kernels", Spv.OpLabel,
          <<V("continue_label_id")>> >>,
        <<"new_id", "next_index_id">>,
        <<"emit_constant", IntT(32), Int32Bytes(1), "constant_one_id">>,
        <<"add_instruction", "spir_v_kernels", Spv.OpIAdd,
          <<V("index_type_id"), V("next_index_id"), V("cur_index_id"),
            V("constant_one_id")>> >>,
        <<"add_instruction", "spir_v_kernels", Spv.OpStore,
          <<V("index_type_id"), V("next_index_id"), V("loop_var_id")>> >>,
        <<"add_instruction", "spir_v_kernels", Spv.OpBranch,
          <<V("header_label_id")>> >>,
        <<"add_instruction", "spir_v_kernels", Spv.OpLabel,
          <<V("merge_label_id")>> >> >>

\* the statements of visit(const Div *) and visit(const Mod *)
visit_Div(op) ==
    IF is_zero(op.b) THEN << <<"throw", "user">> >>
    ELSE IF is_float(op.type)
    THEN visit_binop(op.type, op.a, op.b, Spv.OpFDiv)
    ELSE << <<"accept", lower_euclidean_div(op.a, op.b)>> >>

visit_Mod(op) ==
    IF is_float(op.type)
    THEN visit_binop(op.type, op.a, op.b, Spv.OpFMod)
    ELSE << <<"accept", lower_euclidean_mod(op.a, op.b)>> >>

\* visit(const Ramp *) as it would be with every lane added to the base
visit_Ramp_from_base(op) ==
    <<  <<"map_type", op.base.type, "base_type_id">>,
        <<"map_type", op.type, "type_id">>,
        <<"accept", op.base>>, <<"get_id", "base_id">>,
        <<"accept", op.stride>>, <<"get_id", "stride_id">>,
        <<"get_next_id", "first_id">> >>
    \o Concat([i \in 1..(op.lanes - 1) |->
          <<  <<"new_id", "this_id">>,
              <<"add_instruction", "spir_v_kernels",
                IF is_float(op.base.type) THEN Spv.OpFAdd ELSE Spv.OpIAdd,
                <<V("base_type_id"), V("this_id"), V("base_id"),
                  V("stride_id")>> >> >>])
    \o <<  <<"fresh_id">>,
           <<"push_back", "spir_v_kernels",
             <<K(LeadWord(op.lanes + 3, Spv.OpCompositeConstruct)),
               V("type_id"), ID, V("base_id")>>
               \o [i \in 1..(op.lanes - 1) |-> VO("first_id", i - 1)]>> >>

\* the statements of visit(const Ramp *)
visit_Ramp(op) ==
    <<  <<"map_type", op.base.type, "base_type_id">>,
        <<"map_type", op.type, "type_id">>,
        <<"accept", op.base>>, <<"get_id", "base_id">>,
        <<"accept", op.stride>>, <<"get_id", "stride_id">>,
        <<"let", "prev_id", V("base_id")>>,
        <<"get_next_id", "first_id">> >>
    \o Concat([i \in 1..(op.lanes - 1) |->
          <<  <<"new_id", "this_id">>,
              <<"add_instruction", "spir_v_kernels",
                IF is_float(op.base.type) THEN Spv.OpFAdd ELSE Spv.OpIAdd,
                <<V("base_type_id"), V("this_id"), V("prev_id"),
                  V("stride_id")>> >>,
              <<"let", "prev_id", V("this_id")>> >>])
    \o <<  <<"fresh_id">>,
           <<"push_back", "spir_v_kernels",
             <<K(LeadWord(op.lanes + 3, Spv.OpCompositeConstruct)),
               V("type_id"), ID, V("base_id")>>
               \o [i \in 1..(op.lanes - 1) |-> VO("first_id", i - 1)]>> >>

\* visit(const Let *) as it would be with a binding that is never popped
visit_Let_without_pop(let) ==
    <<  <<"accept", let.value>>,
        <<"push_binding", let.name, ID>>,
        <<"accept", let.body>> >>

\* the statements of visit(const Let *) and visit(const LetStmt *)
visit_Let(let) ==
    <<  <<"accept", let.value>>,
        <<"push_binding", let.name, ID>>,
        <<"accept", let.body>>,
        <<"pop_binding", let.name>> >>

visit_LetStmt(let) ==
    <<  <<"accept", let.value>>,
        <<"push_binding", let.name, ID>>,
        <<"accept", let.body>>,
        <<"set_id", K(-1)>>,
        <<"pop_binding", let.name>> >>

\* the opcode visit(const Cast *) selects from the source and the
\* destination type; 0 where it raises an internal error instead
CastOpcode(from, to) ==
    IF is_float(from)
    THEN (IF is_float(to) THEN Spv.OpFConvert
          ELSE IF is_uint(to) THEN Spv.OpConvertFToU
          ELSE IF is_int(to) THEN Spv.OpConvertFToS ELSE 0)
    ELSE IF is_uint(from)
    THEN (IF is_float(to) THEN Spv.OpConvertUToF
          ELSE IF is_uint(to) THEN Spv.OpUConvert
          ELSE IF is_int(to) THEN Spv.OpSatConvertUToS ELSE 0)
    ELSE IF is_int(from)
    THEN (IF is_float(to) THEN Spv.OpConvertSToF
          ELSE IF is_uint(to) THEN Spv.OpSatConvertSToU
          ELSE IF is_int(to) THEN Spv.OpSConvert ELSE 0)
    ELSE 0

\* the statements of visit(const Cast *)
visit_Cast(op) ==
    IF CastOpcode(op.value.type, op.type) = 0
    THEN << <<"throw", "internal">> >>
    ELSE <<  <<"map_type", op.type, "type_id">>,
             <<"accept", op.value>>, <<"get_id", "src_id">>,
             <<"fresh_id">>,
             <<"add_instruction", "spir_v_kernels",
               CastOpcode(op.value.type, op.type),
               <<V("type_id"), ID, V("src_id")>> >> >>

\* unique_name(prefix) of Util.h: a name no other name of the pipeline equals
unique_name(prefix) == CASE prefix = "a" -> "a0" [] prefix = "b" -> "b0"

\* the expression visit(const Max *) builds and accepts
visit_Max(op) ==
    << <<"accept",
         Let(unique_name("a"), op.a,
             Let(unique_name("b"), op.b,
                 Select(BinOp("GT", BoolT,
                              Variable(op.a.type, unique_name("a")),
                              Variable(op.b.type, unique_name("b"))),
                        Variable(op.a.type, unique_name("a")),
                        Variable(op.b.type, unique_name("b")))))>> >>

\* the expression visit(const Min *) builds and accepts
visit_Min(op) ==
    << <<"accept",
         Let(unique_name("a"), op.a,
             Let(unique_name("b"), op.b,
                 Select(BinOp("LT", BoolT,
                              Variable(op.a.type, unique_name("a")),
                              Variable(op.b.type, unique_name("b"))),
                        Variable(op.a.type, unique_name("a")),
                        Variable(op.b.type, unique_name("b")))))>> >>

\* the statements of visit(const Select *)
visit_Select(op) ==
    <<  <<"map_type", op.type, "type_id">>,
        <<"accept", op.condition>>, <<"get_id", "cond_id">>,
        <<"accept", op.true_value>>, <<"get_id", "true_id">>,
        <<"accept", op.false_value>>, <<"get_id", "false_id">>,
        <<"fresh_id">>,
        <<"add_instruction", "spir_v_kernels", Spv.OpSelect,
          <<V("type_id"), ID, V("cond_id"), V("true_id"), V("false_id")>> >> >>

\* the statements of n's visit method
Statements(n) ==
    CASE n.kind = "Variable" -> << <<"symbol_table.get", n.name>> >>
      [] n.kind \in {"IntImm", "UIntImm"} ->
           <<  <<"emit_constant", n.type, Int64Bytes(n.value), "constant_id">>,
               <<"set_id", V("constant_id")>> >>
      [] n.kind = "FloatImm" ->
           <<  <<"emit_constant", n.type, n.value, "constant_id">>,
               <<"set_id", V("constant_id")>> >>
      [] n.kind \in BinOpKinds ->
           IF BinOpcode(n) = 0 THEN << <<"throw", "internal">> >>
           ELSE visit_binop(n.type, n.a, n.b, BinOpcode(n))
      [] n.kind = "Div" -> visit_Div(n)
      [] n.kind = "Mod" -> visit_Mod(n)
      [] n.kind = "Not" ->
           <<  <<"map_type", n.type, "type_id">>,
               <<"accept", n.a>>, <<"get_id", "a_id">>,
               <<"fresh_id">>,
               <<"add_instruction", "spir_v_kernels", Spv.OpLogicalNot,
                 <<V("type_id"), ID, V("a_id")>> >> >>
      [] n.kind = "Call" -> visit_Call(n)
      [] n.kind = "Cast" -> visit_Cast(n)
      [] n.kind = "Select" -> visit_Select(n)
      [] n.kind = "Max" -> visit_Max(n)
      [] n.kind = "Min" -> visit_Min(n)
      [] n.kind \in {"Load", "Store"} -> <<>>
      [] n.kind = "Let" -> visit_Let(n)
      [] n.kind = "LetStmt" -> visit_LetStmt(n)
      [] n.kind \in {"AssertStmt", "ProducerConsumer", "Allocate", "Free"} ->
           <<>>
      [] n.kind = "For" -> visit_For(n)
      [] n.kind = "Ramp" -> visit_Ramp(n)
      [] n.kind = "Broadcast" ->
           <<  <<"map_type", n.type, "type_id">>,
               <<"accept", n.value>>, <<"get_id", "value_id">>,
               <<"fresh_id">>,
               <<"push_back", "spir_v_kernels",
                 <<K(LeadWord(n.lanes + 3, Spv.OpCompositeConstruct)),
                   V("type_id"), ID>>
                   \o [k \in 1..n.lanes |-> V("value_id")]>> >>
      [] n.kind \in {"Provide", "Realize", "Prefetch", "Fork", "Acquire"} ->
           << <<"throw", "internal">> >>
      [] n.kind = "IfThenElse" ->
           emit_if_then_else(n.condition, n.then_case, n.else_case)
      [] n.kind = "Evaluate" -> << <<"accept", n.value>> >>

RECURSIVE Visit(_, _), Run(_, _), Exec(_, _)

\* one statement s in frame r = [st, fr, live]; live holds the names whose
\* ScopedBinding has been constructed and not yet destroyed
Exec(s, r) ==
    CASE s[1] = "accept" -> [r EXCEPT !.st = Visit(s[2], r.st)]
      [] s[1] = "get_id" -> Bind(r.st, r, s[2], r.st.id)
      [] s[1] = "new_id" -> Bind(NewId(r.st), r, s[2], r.st.next_id)
      [] s[1] = "get_next_id" -> Bind(r.st, r, s[2], r.st.next_id)
      [] s[1] = "fresh_id" -> [r EXCEPT !.st = FreshResult(r.st)]
      [] s[1] = "set_id" -> [r EXCEPT !.st.id = Operand(r, s[2])[1]]
      [] s[1] = "let" -> Bind(r.st, r, s[2], Operand(r, s[3])[1])
      [] s[1] = "array" -> Bind(r.st, r, s[2], Operands(r, s[3]))
      [] s[1] = "map_type" -> BindRet(map_type(r.st, s[2]), r, s[3])
      [] s[1] = "map_pointer_type_local" ->
           BindRet(map_pointer_type_local(r.st, s[2]), r, s[3])
      [] s[1] = "emit_constant" ->
           BindRet(emit_constant(r.st, s[2], s[3]), r, s[4])
      [] s[1] = "add_instruction" ->
           [r EXCEPT !.st = add_instruction(r.st, s[2], s[3],
                                            Operands(r, s[4]))]
      [] s[1] = "push_back" ->
           [r EXCEPT !.st = push_back(r.st, s[2], Operands(r, s[3]))]
      [] s[1] = "symbol_table.get" -> [r EXCEPT !.st = ScopeGet(r.st, s[2])]
      [] s[1] = "push_binding" ->
           [r EXCEPT !.st = ScopePush(r.st, s[2], Operand(r, s[3])[1]),
                     !.live = Append(@, s[2])]
      [] s[1] = "throw" -> [r EXCEPT !.st = Throw(r.st, s[2])]

\* the statements ss from frame r on. Once a statement has thrown, the rest
\* are skipped; a binding's destructor runs at the end of its scope or as
\* the exception unwinds, if the binding was constructed
Run(ss, r) ==
    IF ss = <<>> THEN r.st
    ELSE IF Head(ss)[1] = "pop_binding"
    THEN Run(Tail(ss),
             IF r.live = <<>> THEN r
             ELSE [r EXCEPT !.st = ScopePop(r.st, Head(ss)[2]),
                            !.live = SubSeq(@, 1, Len(@) - 1)])
    ELSE IF r.st.err # "none" THEN Run(Tail(ss), r)
    ELSE Run(Tail(ss), Exec(Head(ss), r))

\* n.accept(this) in emitter state st
Visit(n, st) ==
    IF st.err # "none" THEN st
    ELSE Run(Statements(n), [st |-> st, fr |-> <<>>, live |-> <<>>])

(***************************************************************************)
(* The inputs the calls are made with.                                     *)
(***************************************************************************)
TypeInputs ==
    <<IntT(32), UIntT(32), FloatT(32), Type("int", 32, 2), BoolT, HandleT>>

\* <<type, the literal's bytes in memory>>
ConstantInputs ==
    <<  <<IntT(32), Int32Bytes(7)>>, <<UIntT(32), Int32Bytes(7)>>,
        <<IntT(32), Int32Bytes(1)>>, <<UIntT(8), <<5>>>>,
        <<IntT(64), <<1, 2, 3, 4, 5, 6, 7, 8>>>> >>

Zero64 == [k \in 1..8 |-> 0]
\* 1.0 as a double
One64 == <<0, 0, 0, 0, 0, 0, 240, 63>>
c_true == UIntImm(BoolT, 1)
i32(v) == IntImm(IntT(32), v)
u32(v) == UIntImm(UIntT(32), v)
f32(b) == FloatImm(FloatT(32), b)
ite(c, a, b) == Call(a.type, "if_then_else", <<c, a, b>>)

KernelInputs ==
    <<  [name |-> "imm", body |-> Evaluate(i32(7))],
        [name |-> "add", body |-> Evaluate(BinOp("Add", IntT(32), i32(7), i32(7)))],
        [name |-> "loop", body |->
            For("i", i32(0), i32(2), "Serial", Evaluate(Variable(IntT(32), "i")))],
        [name |-> "ite", body |-> Evaluate(ite(c_true, i32(1), i32(2)))],
        [name |-> "ite_then", body |->
            Evaluate(ite(c_true, ite(c_true, i32(1), i32(2)), i32(3)))],
        [name |-> "ite_else", body |->
            Evaluate(ite(c_true, i32(3), ite(c_true, i32(1), i32(2))))],
        [name |-> "fdiv", body |->
            Evaluate(BinOp("Div", FloatT(32), f32(One64), f32(One64)))],
        [name |-> "fdiv0", body |->
            Evaluate(BinOp("Div", FloatT(32), f32(One64), f32(Zero64)))],
        [name |-> "fmod0", body |->
            Evaluate(BinOp("Mod", FloatT(32), f32(One64), f32(Zero64)))],
        [name |-> "udiv0", body |->
            Evaluate(BinOp("Div", UIntT(32), u32(7), u32(0)))],
        [name |-> "umod0", body |->
            Evaluate(BinOp("Mod", UIntT(32), u32(7), u32(0)))],
        [name |-> "umod", body |->
            Evaluate(BinOp("Mod", UIntT(32), u32(7), u32(2)))],
        [name |-> "store", body |-> Store("buf", i32(7), i32(0))],
        [name |-> "load", body |-> Evaluate(Load(IntT(32), "buf", i32(0)))],
        [name |-> "provide", body |-> Leaf("Provide")],
        [name |-> "realize", body |-> Leaf("Realize")],
        [name |-> "prefetch", body |-> Leaf("Prefetch")],
        [name |-> "fork", body |-> Leaf("Fork")],
        [name |-> "acquire", body |-> Leaf("Acquire")],
        [name |-> "let_provide", body |-> LetStmt("x", i32(1), Leaf("Provide"))],
        [name |-> "if_store", body |->
            IfThenElse(c_true, Store("buf", i32(7), i32(0)), Leaf("Acquire"))],
        [name |-> "loop_load", body |->
            For("i", i32(0), i32(1), "Serial",
                Evaluate(Load(IntT(32), "buf", Variable(IntT(32), "i"))))],
        [name |-> "bcast", body |-> Evaluate(Broadcast(i32(7), 2))],
        [name |-> "ramp3", body |-> Evaluate(Ramp(i32(10), i32(2), 3))],
        [name |-> "ramp2", body |-> Evaluate(Ramp(i32(1), i32(1), 2))],
        [name |-> "ramp1", body |-> Evaluate(Ramp(i32(10), i32(2), 1))],
        [name |-> "ramp_add", body |->
            Evaluate(Ramp(BinOp("Add", IntT(32), i32(7), i32(3)), i32(-1), 4))],
        [name |-> "ramp_f", body |->
            Evaluate(Ramp(f32(One64), f32(Zero64), 2))],
        [name |-> "select", body |-> Evaluate(Select(c_true, i32(1), i32(2)))],
        [name |-> "select_vec", body |->
            Evaluate(Select(c_true, Broadcast(i32(1), 2), Broadcast(i32(2), 2)))],
        [name |-> "max", body |-> Evaluate(BinOp("Max", IntT(32), i32(1), i32(2)))],
        [name |-> "min", body |-> Evaluate(BinOp("Min", IntT(32), i32(1), i32(2)))],
        [name |-> "let_shadow", body |->
            Evaluate(Let("x", i32(7),
                BinOp("Add", IntT(32),
                    Let("x", i32(2),
                        BinOp("Add", IntT(32), Variable(IntT(32), "x"),
                              Variable(IntT(32), "x"))),
                    Variable(IntT(32), "x"))))],
        [name |-> "let_for", body |->
            LetStmt("i", i32(5),
                IfThenElse(c_true,
                    For("i", i32(0), i32(2), "Serial",
                        Evaluate(Call(IntT(32), "bitwise_not",
                                      <<Variable(IntT(32), "i")>>))),
                    Evaluate(Call(IntT(32), "bitwise_not",
                                  <<Variable(IntT(32), "i")>>))))],
        [name |-> "for_let", body |->
            For("i", i32(0), i32(1), "Serial",
                Evaluate(BinOp("Add", IntT(32),
                    Let("i", i32(3),
                        Call(IntT(32), "bitwise_not",
                             <<Variable(IntT(32), "i")>>)),
                    Variable(IntT(32), "i"))))],
        [name |-> "let_unbound", body |->
            Evaluate(Let("x", i32(1), Variable(IntT(32), "y")))],
        [name |-> "cast", body |-> Evaluate(Cast(FloatT(32), i32(7)))],
        [name |-> "cast_handle", body |-> Evaluate(Cast(HandleT, i32(7)))],
        [name |-> "add_cast", body |->
            Evaluate(BinOp("Add", IntT(32), Cast(IntT(32), u32(7)), i32(3)))],
        [name |-> "add_load", body |->
            Evaluate(BinOp("Add", IntT(32), i32(7),
                           Load(IntT(32), "buf", i32(0))))],
        [name |-> "add_reinterpret", body |->
            Evaluate(BinOp("Add", IntT(32), i32(7),
                           Call(IntT(32), "reinterpret", <<u32(3)>>)))],
        [name |-> "barrier", body |->
            Evaluate(Call(IntT(32), "gpu_thread_barrier", <<>>))],
        [name |-> "mul_abs", body |->
            Evaluate(BinOp("Mul", IntT(32), i32(7),
                           Call(IntT(32), "abs", <<i32(-3)>>)))] >>

(***************************************************************************)
(* The state machine: one CodeGen_Vulkan_Dev object and the calls made on  *)
(* it. last_op names the last call and its argument (an index into the     *)
(* inputs above); final_module is what compile_to_src last returned.       *)
(* Three specifications make calls on the object: Spec the calls of a      *)
(* module session, SpecInterner the interners with some kernels between    *)
(* them, and SpecVisit add_kernel on every kernel input.                   *)
(***************************************************************************)
NoModule == [returned |-> FALSE, bytes |-> <<>>]
NoLoop == [min |-> 0, extent |-> 0]

Init ==
    /\ \E id0 \in UninitIds : emitter = NewEmitter(id0)
    /\ current_kernel_name = ""
    /\ final_module = NoModule
    /\ last_op = [op |-> "new", arg |-> 0]
    /\ calls = 0
    /\ loop = NoLoop
    /\ pc = 0
    /\ regs = <<>>
    /\ mem = <<>>
    /\ visited = <<>>

\* a call can be made: no earlier call has thrown
CanCall(max) == emitter.err = "none" /\ calls < max

Called(op, arg) ==
    /\ last_op' = [op |-> op, arg |-> arg]
    /\ calls' = calls + 1
    /\ UNCHANGED <<loop, pc, regs, mem, visited>>

\* the five words init_module appends
HeaderWords == <<SpvMagicNumber, SpvVersion, SpvSourceLanguageUnknown, 0, 0>>

init_module(st) == [st EXCEPT !.spir_v_header = @ \o HeaderWords]

InitModule ==
    /\ CanCall(MaxCalls)
    /\ emitter' = init_module(emitter)
    /\ UNCHANGED <<current_kernel_name, final_module>>
    /\ Called("init_module", 0)

\* the values an uninitialised byte of the word emit_constant assembles
\* reads as
JunkBytes == {0, 171}

add_kernel(max, i) ==
    /\ CanCall(max)
    /\ current_kernel_name' = KernelInputs[i].name
    /\ \E j \in JunkBytes :
          emitter' = [Visit(KernelInputs[i].body, [emitter EXCEPT !.junk = j])
                        EXCEPT !.junk = 0]
    /\ UNCHANGED final_module
    /\ Called("add_kernel", i)

\* the patch as it would be with the last identifier allocated as the bound
PatchBoundLastId(header, bound) == [header EXCEPT ![4] = bound - 1]

\* emitter.spir_v_header[3] = emitter.next_id
PatchBound(header, bound) == [header EXCEPT ![4] = bound]

\* the chars of a run of uint32_t, as compile_to_src copies them
WordBytes(ws) ==
    [k \in 1..(4 * Len(ws)) |-> ByteOf(ws[(k - 1) \div 4 + 1], (k - 1) % 4)]

\* final_module after the four inserts
FinalModule(st) ==
    WordBytes(st.spir_v_header) \o WordBytes(Words(st.spir_v_entrypoints))
      \o WordBytes(Words(st.spir_v_types))
      \o WordBytes(Words(st.spir_v_kernels))

\* compile_to_src with a header written
CompileToSrc ==
    /\ CanCall(MaxCalls)
    /\ Len(emitter.spir_v_header) >= 4
    /\ emitter' = [emitter EXCEPT
                      !.spir_v_header = PatchBound(@, emitter.next_id)]
    /\ final_module' = [returned |-> TRUE, bytes |-> FinalModule(emitter')]
    /\ UNCHANGED current_kernel_name
    /\ Called("compile_to_src", 0)

\* compile_to_src on an empty header: spir_v_header[3] is a write outside
\* the vector, undefined behaviour. The process dies on it, or the write
\* lands outside every section and the call returns the sections as they are.
CompileToSrcNoHeader ==
    /\ CanCall(MaxCalls)
    /\ Len(emitter.spir_v_header) < 4
    /\ \/ /\ emitter' = [emitter EXCEPT !.err = "crash"]
          /\ UNCHANGED final_module
       \/ /\ UNCHANGED emitter
          /\ final_module' = [returned |-> TRUE, bytes |-> FinalModule(emitter)]
    /\ UNCHANGED current_kernel_name
    /\ Called("compile_to_src", 0)

\* the kernels of the module sessions
SessionKernels ==
    {i \in 1..Len(KernelInputs) : KernelInputs[i].name \in {"imm", "loop", "ite"}}

AddKernel(i) == add_kernel(MaxCalls, i)

Next ==
    \/ InitModule
    \/ \E i \in SessionKernels : AddKernel(i)
    \/ CompileToSrc
    \/ CompileToSrcNoHeader

Spec == Init /\ [][Next]_vars

(***************************************************************************)
(* SpecInterner: the interners called on their own, between kernels.       *)
(***************************************************************************)
MapType(i) ==
    /\ CanCall(MaxInternerCalls)
    /\ emitter' = map_type(emitter, TypeInputs[i])
    /\ UNCHANGED <<current_kernel_name, final_module>>
    /\ Called("map_type", i)

MapTypeToPair(i) ==
    /\ CanCall(MaxInternerCalls)
    /\ emitter' = map_type_to_pair(emitter, TypeInputs[i])
    /\ UNCHANGED <<current_kernel_name, final_module>>
    /\ Called("map_type_to_pair", i)

MapPointerTypeLocal(i) ==
    /\ CanCall(MaxInternerCalls)
    /\ emitter' = map_pointer_type_local(emitter, TypeInputs[i])
    /\ UNCHANGED <<current_kernel_name, final_module>>
    /\ Called("map_pointer_type_local", i)

EmitConstant(i) ==
    /\ CanCall(MaxInternerCalls)
    /\ \E j \in (IF bytes(ConstantInputs[i][1]) % 4 = 0 THEN {0} ELSE JunkBytes) :
          emitter' = [emit_constant([emitter EXCEPT !.junk = j],
                                    ConstantInputs[i][1], ConstantInputs[i][2])
                        EXCEPT !.junk = 0]
    /\ UNCHANGED <<current_kernel_name, final_module>>
    /\ Called("emit_constant", i)

\* the kernels emitted between the interner calls
InternerKernels ==
    {i \in 1..Len(KernelInputs) :
        KernelInputs[i].name \in {"imm", "add", "loop", "bcast"}}

InternerAddKernel(i) == add_kernel(MaxInternerCalls, i)

NextInterner ==
    \/ \E i \in 1..Len(TypeInputs) : MapType(i)
    \/ \E i \in {1, 3, 4} : MapTypeToPair(i)
    \/ \E i \in {1, 3, 4} : MapPointerTypeLocal(i)
    \/ \E i \in 1..Len(ConstantInputs) : EmitConstant(i)
    \/ \E i \in InternerKernels : InternerAddKernel(i)

SpecInterner == Init /\ [][NextInterner]_vars

(***************************************************************************)
(* SpecVisit: add_kernel on each kernel input.                             *)
(***************************************************************************)
VisitKernel(i) == add_kernel(MaxKernels, i)

NextVisit == \E i \in 1..Len(KernelInputs) : VisitKernel(i)

SpecVisit == Init /\ [][NextVisit]_vars

(***************************************************************************)
(* Reading the sections back: the instructions of a section, and the part  *)
(* of the function-body section the last call appended.                    *)
(***************************************************************************)
Sections == {"spir_v_entrypoints", "spir_v_types", "spir_v_kernels"}

\* group g is an instruction with this opcode in its leading word
IsOp(g, opcode) == Len(g) > 0 /\ Opcode(g[1]) = opcode

MaxOf(S) == CHOOSE x \in S : \A y \in S : y <= x

\* the groups the step appended to spir_v_kernels
Appended ==
    SubSeq(emitter'.spir_v_kernels, Len(emitter.spir_v_kernels) + 1,
           Len(emitter'.spir_v_kernels))

\* the step appended nothing to any section and allocated no identifier
NothingEmitted ==
    /\ emitter'.spir_v_header = emitter.spir_v_header
    /\ emitter'.spir_v_entrypoints = emitter.spir_v_entrypoints
    /\ emitter'.spir_v_types = emitter.spir_v_types
    /\ emitter'.spir_v_kernels = emitter.spir_v_kernels
    /\ emitter'.next_id = emitter.next_id

RECURSIVE Walk(_, _)
\* walking the count fields of ws from word pos ends exactly at the end
Walk(ws, pos) ==
    IF pos = Len(ws) + 1 THEN TRUE
    ELSE IF pos > Len(ws) + 1 THEN FALSE
    ELSE IF WordCount(ws[pos]) = 0 THEN FALSE
    ELSE Walk(ws, pos + WordCount(ws[pos]))

(***************************************************************************)
(* SpecLoop: the instructions the visit method of For emits, executed. The *)
(* machine runs the function-body section one instruction at a time: pc is *)
(* the position of the next instruction, regs the value of each result     *)
(* identifier, mem the value each OpVariable holds. The operands of an     *)
(* instruction are read in the roles the emitter wrote them in (the        *)
(* initialiser of OpVariable, the value and the pointer of OpStore, the    *)
(* result and the two sides of OpSLessThanEqual), and the value of the     *)
(* k-th OpConstant is the k-th literal emit_constant left in the types     *)
(* section. The loop body is one OpNot of the loop variable; visited is    *)
(* the sequence of the values it was executed on.                          *)
(***************************************************************************)
LoopMins == {-1, 0, 2}

LoopKernel(mn, ext) ==
    For("i", i32(mn), i32(ext), "Serial",
        Evaluate(Call(IntT(32), "bitwise_not", <<Variable(IntT(32), "i")>>)))

AddLoopKernel(mn, ext) ==
    /\ calls = 0
    /\ current_kernel_name' = "loop"
    /\ \E j \in JunkBytes :
          emitter' = [Visit(LoopKernel(mn, ext), [emitter EXCEPT !.junk = j])
                        EXCEPT !.junk = 0]
    /\ loop' = [min |-> mn, extent |-> ext]
    /\ pc' = 1
    /\ last_op' = [op |-> "add_kernel", arg |-> 0]
    /\ calls' = 1
    /\ UNCHANGED <<final_module, regs, mem, visited>>

\* a group of the types section that is the words of a literal
IsLiteral(g) ==
    ~ \E oc \in {Spv.OpTypeBool, Spv.OpTypeInt, Spv.OpTypeFloat,
                 Spv.OpTypeVector, Spv.OpTypeStruct, Spv.OpTypePointer} :
          IsOp(g, oc) /\ WordCount(g[1]) = Len(g)

\* the value of the OpConstant at position p of the function-body section
ConstantValue(p) ==
    SelectSeq(emitter.spir_v_types, IsLiteral)
        [Cardinality({k \in 1..p :
             IsOp(emitter.spir_v_kernels[k], Spv.OpConstant)})][1]

\* the position of the OpLabel of label
LabelPosition(label) ==
    CHOOSE k \in 1..Len(emitter.spir_v_kernels) :
        IsOp(emitter.spir_v_kernels[k], Spv.OpLabel)
          /\ emitter.spir_v_kernels[k][2] = label

\* a + b of two 32-bit integers, modulo 2^32
AddWrap(a, b) ==
    IF b > 0 /\ a > 2147483647 - b
    THEN ((a - 2147483647) - 1) + ((b - 2147483647) - 1)
    ELSE IF b < 0 /\ a < (-2147483647 - 1) - b
    THEN ((a + 2147483647) + 1) + ((b + 2147483647) + 1)
    ELSE a + b

\* the registers after the instruction g at position p
RegsAfter(g, p) ==
    CASE IsOp(g, Spv.OpConstant) -> MapPut(regs, g[3], ConstantValue(p))
      [] IsOp(g, Spv.OpIAdd) ->
           MapPut(regs, g[3], AddWrap(regs[g[4]], regs[g[5]]))
      [] IsOp(g, Spv.OpLoad) -> MapPut(regs, g[3], mem[g[4]])
      [] IsOp(g, Spv.OpSLessThanEqual) ->
           MapPut(regs, g[2], IF regs[g[3]] <= regs[g[4]] THEN 1 ELSE 0)
      [] IsOp(g, Spv.OpNot) ->
           MapPut(regs, g[3], IF regs[g[4]] >= 0 THEN (-regs[g[4]]) - 1
                              ELSE -(regs[g[4]] + 1))
      [] OTHER -> regs

\* the memory after the instruction g
MemAfter(g) ==
    CASE IsOp(g, Spv.OpVariable) -> MapPut(mem, g[3], regs[g[4]])
      [] IsOp(g, Spv.OpStore) -> MapPut(mem, g[4], regs[g[3]])
      [] OTHER -> mem

\* the position of the instruction executed after g at position p
PcAfter(g, p) ==
    CASE IsOp(g, Spv.OpBranch) -> LabelPosition(g[2])
      [] IsOp(g, Spv.OpBranchConditional) ->
           LabelPosition(IF regs[g[2]] = 1 THEN g[3] ELSE g[4])
      [] OTHER -> p + 1

ExecuteInstruction ==
    /\ pc \in 1..Len(emitter.spir_v_kernels)
    /\ regs' = RegsAfter(emitter.spir_v_kernels[pc], pc)
    /\ mem' = MemAfter(emitter.spir_v_kernels[pc])
    /\ pc' = PcAfter(emitter.spir_v_kernels[pc], pc)
    /\ visited' = IF IsOp(emitter.spir_v_kernels[pc], Spv.OpNot)
                  THEN Append(visited, regs[emitter.spir_v_kernels[pc][4]])
                  ELSE visited
    /\ UNCHANGED <<emitter, current_kernel_name, final_module, last_op,
                   calls, loop>>

NextLoop ==
    \/ \E mn \in LoopMins : \E ext \in 0..MaxExtent : AddLoopKernel(mn, ext)
    \/ ExecuteInstruction

SpecLoop == Init /\ [][NextLoop]_vars

\* the kernel has run to the end of its instructions
Halted == pc = Len(emitter.spir_v_kernels) + 1

\* the instructions are executed one after the other until the last
SpecLoopFair == SpecLoop /\ WF_vars(ExecuteInstruction)

(***************************************************************************)
(* SpecLoopMax: the loops whose min + extent is the largest int32_t, the   *)
(* type of the loop variable. The run is followed until the body has been  *)
(* executed MaxExtent + 3 times, more often than any loop of extent up to  *)
(* MaxExtent executes it over min .. min + extent.                         *)
(***************************************************************************)
Int32Max == 2147483647

AddLoopKernelToMax(ext) == AddLoopKernel(Int32Max - ext, ext)

ExecuteBounded ==
    /\ Len(visited) < MaxExtent + 3
    /\ ExecuteInstruction

NextLoopMax ==
    \/ \E ext \in 0..MaxExtent : AddLoopKernelToMax(ext)
    \/ ExecuteBounded

SpecLoopMax == Init /\ [][NextLoopMax]_vars

(***************************************************************************)
(* C1. Constant interning.                                                 *)
(***************************************************************************)
ConstantKeysRequested == {p[1] : p \in emitter.const_log}

ConstantDefinitions ==
    {k \in 1..Len(emitter.spir_v_kernels) :
        IsOp(emitter.spir_v_kernels[k], Spv.OpConstant)}

\* C1: two emit_constant calls with the same (type, bytes) key return the
\* same identifier, and the number of OpConstant instructions emitted equals
\* the number of distinct keys requested.
C1_ConstantInterningIdempotent ==
    /\ \A p \in emitter.const_log : \A q \in emitter.const_log :
          p[1] = q[1] => p[2] = q[2]
    /\ Cardinality(ConstantDefinitions) = Cardinality(ConstantKeysRequested)

(***************************************************************************)
(* C2. Instruction self-consistency.                                       *)
(***************************************************************************)
\* C2: in every section, the word count in the leading word of each
\* instruction equals the number of words its emission appended to that
\* section, so the section splits into whole instructions by walking the
\* count fields from its first word to exactly its end.
C2_InstructionSelfConsistency ==
    \A region \in Sections :
        /\ \A k \in 1..Len(emitter[region]) :
              /\ Len(emitter[region][k]) > 0
              /\ WordCount(emitter[region][k][1]) = Len(emitter[region][k])
        /\ Walk(Words(emitter[region]), 1)

(***************************************************************************)
(* C3. The iterations of a serial loop.                                    *)
(***************************************************************************)
\* first, first + 1, ..., first + n - 1
Ascending(first, n) == [k \in 1..n |-> first + k - 1]

\* C3: executing the instructions of a serial loop over [min, min+extent)
\* runs the body once for each i of min .. min+extent-1, in ascending order,
\* and for no other value; for extent 0 the body is never reached.
C3_LoopVisitsHalfOpenRange ==
    pc > 0 =>
       /\ \E n \in 0..loop.extent : visited = Ascending(loop.min, n)
       /\ Halted => visited = Ascending(loop.min, loop.extent)

\* what the instructions do: the body runs for min .. min+extent
C3_LoopVisitsThroughMax ==
    pc > 0 =>
       /\ \E n \in 0..(loop.extent + 1) : visited = Ascending(loop.min, n)
       /\ Halted => visited = Ascending(loop.min, loop.extent + 1)

(***************************************************************************)
(* C4. The phi of a value-producing if_then_else.                          *)
(***************************************************************************)
\* the label of the last OpLabel of seg before position k (-1: none)
LastLabelBefore(seg, k) ==
    IF \E j \in 1..(k - 1) : IsOp(seg[j], Spv.OpLabel)
    THEN seg[MaxOf({j \in 1..(k - 1) : IsOp(seg[j], Spv.OpLabel)})][2]
    ELSE -1

\* the positions of the branches of seg to label
BranchesTo(seg, label) ==
    {j \in 1..Len(seg) : IsOp(seg[j], Spv.OpBranch) /\ seg[j][2] = label}

\* the phi at position p of seg, which follows its merge label: the then
\* pair is the result and the block of the emission before the branch to
\* the merge label, the else pair the result and the block of the emission
\* before the merge label
PhiMatchesBranches(seg, p) ==
    /\ p > 2
    /\ Len(seg[p]) = 7
    /\ WordCount(seg[p][1]) = 7
    /\ IsOp(seg[p - 1], Spv.OpLabel)
    /\ \E b \in BranchesTo(seg, seg[p - 1][2]) :
          /\ BranchesTo(seg, seg[p - 1][2]) = {b}
          /\ seg[p][4] = seg[b - 1][3]
          /\ seg[p][5] = LastLabelBefore(seg, b)
    /\ seg[p][6] = seg[p - 2][3]
    /\ seg[p][7] = LastLabelBefore(seg, p - 1)

\* the kernels whose body is a value-producing if_then_else
IfThenElseKernels ==
    {i \in 1..Len(KernelInputs) :
        KernelInputs[i].name \in {"ite", "ite_then", "ite_else"}}

\* C4: every phi a kernel emits has exactly two (value, label) pairs, the
\* then pair first, each value the result of that branch's expression and
\* each label the label of the last block emitted for that branch, also
\* when a branch holds an if_then_else of its own.
C4_PhiMatchesLastBlocks ==
    [][(last_op'.op = "add_kernel" /\ last_op'.arg \in IfThenElseKernels)
        => /\ emitter'.err = "none"
           /\ \E p \in 1..Len(Appended) : IsOp(Appended[p], Spv.OpPhi)
           /\ \A p \in 1..Len(Appended) :
                 IsOp(Appended[p], Spv.OpPhi) =>
                    PhiMatchesBranches(Appended, p)]_vars

\* the same for the kernel whose branches are literals
C4_PhiOfFlatBranches ==
    [][(last_op'.op = "add_kernel" /\ KernelInputs[last_op'.arg].name = "ite")
        => /\ emitter'.err = "none"
           /\ \E p \in 1..Len(Appended) : IsOp(Appended[p], Spv.OpPhi)
           /\ \A p \in 1..Len(Appended) :
                 IsOp(Appended[p], Spv.OpPhi) =>
                    PhiMatchesBranches(Appended, p)]_vars

(***************************************************************************)
(* C5. Type interning.                                                     *)
(***************************************************************************)
\* the positions in the types section of the instructions defining a type
\* map_type hands out
TypeDefinitions ==
    {k \in 1..Len(emitter.spir_v_types) :
        /\ \E oc \in {Spv.OpTypeBool, Spv.OpTypeInt, Spv.OpTypeFloat,
                      Spv.OpTypeVector} : IsOp(emitter.spir_v_types[k], oc)
        /\ WordCount(emitter.spir_v_types[k][1]) = Len(emitter.spir_v_types[k])}

\* the positions of the instructions defining identifier id
DefinitionsOf(id) ==
    {k \in TypeDefinitions : emitter.spir_v_types[k][2] = id}

TypeInterningConsistent ==
    /\ \A t1 \in DOMAIN emitter.type_map : \A t2 \in DOMAIN emitter.type_map :
          emitter.type_map[t1] = emitter.type_map[t2] => t1 = t2
    /\ Cardinality(TypeDefinitions) = Cardinality(DOMAIN emitter.type_map)
    /\ \A t \in DOMAIN emitter.type_map :
          /\ emitter.type_map[t] \in emitter.allocated
          /\ Cardinality(DefinitionsOf(emitter.type_map[t])) = 1
          /\ \A k \in DefinitionsOf(emitter.type_map[t]) :
                IsOp(emitter.spir_v_types[k], Spv.OpTypeVector) <=> t.lanes # 1
          /\ t.lanes # 1 =>
                /\ with_lanes(t, 1) \in DOMAIN emitter.type_map
                /\ \A k \in DefinitionsOf(emitter.type_map[t]) :
                      /\ emitter.spir_v_types[k][3]
                            = emitter.type_map[with_lanes(t, 1)]
                      /\ emitter.spir_v_types[k][4] = t.lanes
                      /\ \A b \in DefinitionsOf(
                                     emitter.type_map[with_lanes(t, 1)]) : b < k

\* C5: each TypeKey of type_map has exactly one identifier and exactly one
\* defining instruction in the types section, a vector type's defining
\* instruction follows that of its 1-lane base type and references the base
\* type's identifier, and a map_type call with a key already mapped returns
\* the key's identifier, appends nothing and allocates no identifier.
C5_TypeInterningIdempotent ==
    [][/\ TypeInterningConsistent'
       /\ (last_op'.op = "map_type"
             /\ TypeInputs[last_op'.arg] \in DOMAIN emitter.type_map)
          => /\ emitter'.err = "none"
             /\ emitter'.ret = emitter.type_map[TypeInputs[last_op'.arg]]
             /\ emitter'.type_map = emitter.type_map
             /\ NothingEmitted]_vars

\* map_type was called again on a vector type whose definition and whose
\* base type's definition are in the types section, after a kernel
C5_RepeatedVectorKey ==
    /\ last_op.op = "map_type"
    /\ TypeInputs[last_op.arg].lanes = 2
    /\ emitter.err = "none"
    /\ calls = 3
    /\ Cardinality(TypeDefinitions) = 2
    /\ Len(emitter.spir_v_kernels) > 0
    /\ emitter.ret = emitter.type_map[TypeInputs[last_op.arg]]

(***************************************************************************)
(* C6. The bound and the layout of the module compile_to_src returns.      *)
(***************************************************************************)
AllSections ==
    emitter.spir_v_header \o Words(emitter.spir_v_entrypoints)
      \o Words(emitter.spir_v_types) \o Words(emitter.spir_v_kernels)

\* C6: after init_module, add_kernel calls and compile_to_src, word 3 of the
\* header is one past the highest identifier allocated, every identifier
\* allocated is less than it, and the bytes returned are the words of the
\* header, entry-point, types and function-body sections in that order.
C6_BoundAndLayout ==
    (last_op.op = "compile_to_src" /\ emitter.err = "none"
       /\ Len(emitter.spir_v_header) >= 5)
    => /\ \A i \in emitter.allocated : i < emitter.spir_v_header[4]
       /\ emitter.allocated # {} =>
             emitter.spir_v_header[4] = MaxOf(emitter.allocated) + 1
       /\ final_module.returned
       /\ Len(final_module.bytes) = 4 * Len(AllSections)
       /\ \A k \in 1..Len(AllSections) :
             WordOf(SubSeq(final_module.bytes, 4 * k - 3, 4 * k))
                = AllSections[k]

\* compile_to_src returned after one init_module and at least one kernel
C6_CompiledSession ==
    /\ last_op.op = "compile_to_src"
    /\ emitter.err = "none"
    /\ Len(emitter.spir_v_header) = 5
    /\ Len(emitter.spir_v_kernels) > 0
    /\ Len(emitter.spir_v_types) > 0
    /\ final_module.returned

(***************************************************************************)
(* C7, C8. init_module and compile_to_src out of order.                    *)
(***************************************************************************)
\* C7: immediately after an init_module call the header is exactly the five
\* words and the entry-point, types and function-body sections are empty.
C7_InitModuleResets ==
    last_op.op = "init_module"
    => /\ emitter.spir_v_header = HeaderWords
       /\ emitter.spir_v_entrypoints = <<>>
       /\ emitter.spir_v_types = <<>>
       /\ emitter.spir_v_kernels = <<>>

\* C8: compile_to_src on a session without init_module fails with an
\* internal error and returns no module.
C8_CompileBeforeInitFails ==
    (last_op.op = "compile_to_src" /\ emitter.spir_v_header = <<>>)
    => /\ emitter.err = "internal"
       /\ ~final_module.returned

(***************************************************************************)
(* C9. Division and modulo by a literal zero.                              *)
(***************************************************************************)
\* e is a literal whose value is zero
ZeroLiteral(e) ==
    \/ e.kind \in {"IntImm", "UIntImm"} /\ e.value = 0
    \/ e.kind = "FloatImm" /\ e.value = Zero64

\* the kernel evaluates a Div or Mod of kinds whose divisor is a literal zero
ZeroDivisor(s, kinds) ==
    /\ s.kind = "Evaluate"
    /\ s.value.kind \in kinds
    /\ ZeroLiteral(s.value.b)

\* C9: a Div or Mod node, float or integer, whose divisor is a literal zero
\* is a user error raised before any word is appended and before any
\* identifier is allocated.
C9_ZeroDivisorIsUserError ==
    [][(last_op'.op = "add_kernel"
          /\ ZeroDivisor(KernelInputs[last_op'.arg].body, {"Div", "Mod"}))
        => (emitter'.err = "user" /\ NothingEmitted)]_vars

\* the same for Div alone
C9_ZeroDivisorOfDiv ==
    [][(last_op'.op = "add_kernel"
          /\ ZeroDivisor(KernelInputs[last_op'.arg].body, {"Div"}))
        => (emitter'.err = "user" /\ NothingEmitted)]_vars

(***************************************************************************)
(* C10. The node kinds that must not reach the emitter.                    *)
(***************************************************************************)
RECURSIVE Reaches(_, _)
\* the traversal of statement s visits a node of kinds
Reaches(s, kinds) ==
    CASE s.kind \in kinds -> TRUE
      [] s.kind = "Evaluate" -> s.value.kind \in kinds
      [] s.kind = "LetStmt" -> Reaches(s.body, kinds)
      [] s.kind = "For" -> Reaches(s.body, kinds)
      [] s.kind = "IfThenElse" ->
           Reaches(s.then_case, kinds) \/ Reaches(s.else_case, kinds)
      [] OTHER -> FALSE

\* the first node of s to emit anything is of kinds
StartsWith(s, kinds) ==
    s.kind \in kinds \/ (s.kind = "Evaluate" /\ s.value.kind \in kinds)

\* C10: visiting a Provide, Realize, Prefetch, Fork, Acquire, Load or Store
\* node, anywhere in the statement, aborts with an internal error, and the
\* visit appends no word.
C10_UnsupportedNodesAbort ==
    [][(last_op'.op = "add_kernel"
          /\ Reaches(KernelInputs[last_op'.arg].body,
                {"Provide", "Realize", "Prefetch", "Fork", "Acquire",
                 "Load", "Store"}))
        => /\ emitter'.err = "internal"
           /\ StartsWith(KernelInputs[last_op'.arg].body,
                 {"Provide", "Realize", "Prefetch", "Fork", "Acquire",
                  "Load", "Store"}) => NothingEmitted]_vars

\* the same for the five kinds whose visit raises the error
C10_FatalKindsAbort ==
    [][(last_op'.op = "add_kernel"
          /\ Reaches(KernelInputs[last_op'.arg].body,
                {"Provide", "Realize", "Prefetch", "Fork", "Acquire"}))
        => /\ emitter'.err = "internal"
           /\ StartsWith(KernelInputs[last_op'.arg].body,
                 {"Provide", "Realize", "Prefetch", "Fork", "Acquire"})
                 => NothingEmitted]_vars

(***************************************************************************)
(* C11. The shape of a Ramp.                                               *)
(***************************************************************************)
RECURSIVE EmittedBy(_)
\* the number of instructions expression e appends to the function body
EmittedBy(e) ==
    CASE e.kind \in {"IntImm", "UIntImm", "FloatImm"} -> 1
      [] e.kind \in BinOpKinds -> EmittedBy(e.a) + EmittedBy(e.b) + 1
      [] e.kind = "Cast" -> EmittedBy(e.value) + 1
      [] e.kind = "Call" /\ e.name = "bitwise_not" -> EmittedBy(e.args[1]) + 1
      [] e.kind = "Load" -> 0
      [] e.kind = "Call" /\ e.name # "bitwise_not" -> 0

RECURSIVE ValueOf(_)
\* the integer expression e denotes
ValueOf(e) ==
    CASE e.kind \in {"IntImm", "UIntImm"} -> e.value
      [] e.kind = "Add" -> ValueOf(e.a) + ValueOf(e.b)

RECURSIVE Denotes(_, _, _)
\* the value identifier id of seg denotes, given the values val of some
\* identifiers: the sum of the operands of the addition that defines it
Denotes(seg, id, val) ==
    IF id \in DOMAIN val THEN val[id]
    ELSE LET k == CHOOSE k \in 1..Len(seg) :
                     IsOp(seg[k], Spv.OpIAdd) /\ seg[k][3] = id
         IN Denotes(seg, seg[k][4], val) + Denotes(seg, seg[k][5], val)

\* seg is what a Ramp r appends: its base (nb instructions), its stride
\* (ns instructions), lanes - 1 additions and the composite-construct
RampShape(seg, r, nb, ns) ==
    /\ Len(seg) = nb + ns + r.lanes
    /\ \A k \in 1..(r.lanes - 1) :
          /\ seg[nb + ns + k]
               = <<LeadWord(5, IF is_float(r.base.type) THEN Spv.OpFAdd
                               ELSE Spv.OpIAdd),
                   emitter'.type_map[r.base.type],
                   seg[nb + ns + k][3],
                   IF k = 1 THEN seg[nb][3] ELSE seg[nb + ns + k - 1][3],
                   seg[nb + ns][3]>>
          /\ seg[nb + ns + k][3] \in emitter'.allocated \ emitter.allocated
          /\ \A j \in 1..(k - 1) : seg[nb + ns + j][3] # seg[nb + ns + k][3]
    /\ IsOp(seg[Len(seg)], Spv.OpCompositeConstruct)
    /\ Len(seg[Len(seg)]) = r.lanes + 3
    /\ WordCount(seg[Len(seg)][1]) = r.lanes + 3
    /\ seg[Len(seg)][2] = emitter'.type_map[r.type]
    /\ seg[Len(seg)][3] = emitter'.id
    /\ seg[Len(seg)][4] = seg[nb][3]
    /\ \A k \in 1..(r.lanes - 1) :
          seg[Len(seg)][4 + k] = seg[nb + ns + k][3]
    /\ ~is_float(r.base.type) =>
          \A i \in 0..(r.lanes - 1) :
             Denotes(seg, seg[Len(seg)][4 + i],
                     (seg[nb][3] :> ValueOf(r.base))
                        @@ (seg[nb + ns][3] :> ValueOf(r.stride)))
                = ValueOf(r.base) + i * ValueOf(r.stride)

\* the kernels that evaluate a Ramp
RampKernels ==
    {i \in 1..Len(KernelInputs) :
        /\ KernelInputs[i].body.kind = "Evaluate"
        /\ KernelInputs[i].body.value.kind = "Ramp"}

\* C11: a Ramp emits its base and its stride once each, then lanes - 1
\* additions, the k-th adding the stride identifier to the previous lane's
\* identifier (the first to the base identifier), then one composite-
\* construct whose lane operands are the base identifier and the addition
\* results in order, so that lane i denotes base + i * stride.
C11_RampShape ==
    [][(last_op'.op = "add_kernel" /\ last_op'.arg \in RampKernels)
        => /\ emitter'.err = "none"
           /\ RampShape(Appended, KernelInputs[last_op'.arg].body.value,
                 EmittedBy(KernelInputs[last_op'.arg].body.value.base),
                 EmittedBy(KernelInputs[last_op'.arg].body.value.stride))]_vars

\* ramp(10, 2, 3) has been emitted: two additions and a composite-construct
\* of three lanes end the function body
C11_RampEmitted ==
    /\ last_op.op = "add_kernel"
    /\ current_kernel_name = "ramp3"
    /\ emitter.err = "none"
    /\ Len(emitter.spir_v_kernels) >= 5
    /\ IsOp(emitter.spir_v_kernels[Len(emitter.spir_v_kernels)],
            Spv.OpCompositeConstruct)
    /\ Len(emitter.spir_v_kernels[Len(emitter.spir_v_kernels)]) = 6
    /\ IsOp(emitter.spir_v_kernels[Len(emitter.spir_v_kernels) - 1],
            Spv.OpIAdd)

(***************************************************************************)
(* C12. Select, and the Select of Min and Max.                             *)
(***************************************************************************)
\* the kernels that evaluate a Select, a Max or a Min
SelectKernels ==
    {i \in 1..Len(KernelInputs) :
        /\ KernelInputs[i].body.kind = "Evaluate"
        /\ KernelInputs[i].body.value.kind \in {"Select", "Max", "Min"}}

\* C12: a Select (also the one Max and Min build) is lowered through
\* emit_if_then_else: a conditional branch, then and else blocks and a phi
\* at the merge label for a scalar, lane by lane for a vector; no select
\* instruction taking both evaluated values is emitted.
C12_SelectThroughIfThenElse ==
    [][(last_op'.op = "add_kernel" /\ last_op'.arg \in SelectKernels)
        => /\ emitter'.err = "none"
           /\ \A k \in 1..Len(Appended) : ~IsOp(Appended[k], Spv.OpSelect)
           /\ ~is_vector(KernelInputs[last_op'.arg].body.value.type)
                => /\ \E k \in 1..Len(Appended) :
                         IsOp(Appended[k], Spv.OpBranchConditional)
                   /\ IsOp(Appended[Len(Appended)], Spv.OpPhi)]_vars

\* what the visit of Select emits instead: after the condition and both
\* values, one select instruction on their three identifiers, and neither a
\* branch nor a phi
C12_SelectIsOneInstruction ==
    [][(last_op'.op = "add_kernel" /\ last_op'.arg \in SelectKernels)
        => /\ emitter'.err = "none"
           /\ Len(Appended) >= 4
           /\ IsOp(Appended[Len(Appended)], Spv.OpSelect)
           /\ Len(Appended[Len(Appended)]) = 6
           /\ Appended[Len(Appended)][3] = emitter'.id
           /\ \A k \in 1..Len(Appended) :
                 /\ ~IsOp(Appended[k], Spv.OpBranchConditional)
                 /\ ~IsOp(Appended[k], Spv.OpPhi)
                 /\ ~IsOp(Appended[k], Spv.OpVectorInsertDynamic)]_vars

(***************************************************************************)
(* C13. The bindings of Let, LetStmt and For.                              *)
(***************************************************************************)
\* the instructions of seg with this opcode, in order
OpsOf(seg, opcode) == SelectSeq(seg, LAMBDA g : IsOp(g, opcode))

\* let x = 7 in (let x = 2 in x + x) + x: the inner sum adds the inner
\* value to itself, the outer sum adds the inner sum and the outer value
LetShadowResolves(seg) ==
    /\ Len(seg) = 4
    /\ seg[1][3] # seg[2][3]
    /\ IsOp(seg[3], Spv.OpIAdd)
    /\ seg[3][4] = seg[2][3] /\ seg[3][5] = seg[2][3]
    /\ IsOp(seg[4], Spv.OpIAdd)
    /\ seg[4][4] = seg[3][3] /\ seg[4][5] = seg[1][3]

\* let i = 5 in { for i ... ~i ; ~i }: inside the loop i is the loaded
\* induction value, after the loop it is the let's value again
LetForResolves(seg) ==
    /\ Len(OpsOf(seg, Spv.OpNot)) = 2
    /\ Len(OpsOf(seg, Spv.OpLoad)) = 1
    /\ OpsOf(seg, Spv.OpNot)[1][4] = OpsOf(seg, Spv.OpLoad)[1][3]
    /\ IsOp(seg[1], Spv.OpConstant)
    /\ OpsOf(seg, Spv.OpNot)[2][4] = seg[1][3]
    /\ seg[1][3] # OpsOf(seg, Spv.OpLoad)[1][3]

\* for i { (let i = 3 in ~i) + i }: ~ is applied to the let's value, the
\* sum adds the loaded induction value
ForLetResolves(seg) ==
    /\ Len(OpsOf(seg, Spv.OpNot)) = 1
    /\ Len(OpsOf(seg, Spv.OpLoad)) = 1
    /\ \E p \in 2..(Len(seg) - 1) :
          /\ IsOp(seg[p], Spv.OpNot)
          /\ IsOp(seg[p - 1], Spv.OpConstant)
          /\ seg[p][4] = seg[p - 1][3]
          /\ IsOp(seg[p + 1], Spv.OpIAdd)
          /\ seg[p + 1][4] = seg[p][3]
          /\ seg[p + 1][5] = OpsOf(seg, Spv.OpLoad)[1][3]

\* C13: the symbol table after a kernel's Let, LetStmt and For nodes have
\* been emitted equals the one before, whatever the nesting and the
\* shadowing and also when the body raises an error; inside a body the name
\* resolves to the identifier of the bound value (of the loaded induction
\* value for a loop), and after a shadowing node to the identifier it had
\* before.
C13_BindingsRestored ==
    [][last_op'.op = "add_kernel"
        => /\ emitter'.symbol_table = emitter.symbol_table
           /\ current_kernel_name' = "let_shadow"
                => emitter'.err = "none" /\ LetShadowResolves(Appended)
           /\ current_kernel_name' = "let_for"
                => emitter'.err = "none" /\ LetForResolves(Appended)
           /\ current_kernel_name' = "for_let"
                => emitter'.err = "none" /\ ForLetResolves(Appended)
           /\ current_kernel_name' \in {"let_unbound", "let_provide"}
                => emitter'.err = "internal"]_vars

\* the shadowing lets have been emitted and x is unbound again
C13_ShadowedLetEmitted ==
    /\ last_op.op = "add_kernel"
    /\ current_kernel_name = "let_shadow"
    /\ emitter.err = "none"
    /\ emitter.symbol_table["x"] = <<>>
    /\ Len(emitter.spir_v_kernels) >= 4
    /\ IsOp(emitter.spir_v_kernels[Len(emitter.spir_v_kernels)], Spv.OpIAdd)
    /\ IsOp(emitter.spir_v_kernels[Len(emitter.spir_v_kernels) - 1],
            Spv.OpIAdd)

(***************************************************************************)
(* C14. The literal words of a constant.                                   *)
(***************************************************************************)
\* the words the step appended to spir_v_types
AppendedTypeWords ==
    Concat(SubSeq(emitter'.spir_v_types, Len(emitter.spir_v_types) + 1,
                  Len(emitter'.spir_v_types)))

\* word k (k = 0, 1, ...) of a literal of n bytes packed 4 bytes per word,
\* the bytes beyond the literal zero
PackedWord(data, n, k) ==
    WordOf([b \in 1..4 |-> IF 4 * k + b <= n THEN data[4 * k + b] ELSE 0])

\* the last nw words of ws are the literal data of n bytes, packed
LiteralWordsPacked(ws, data, n, nw) ==
    /\ Len(ws) >= nw
    /\ \A k \in 0..(nw - 1) :
          ws[Len(ws) - nw + 1 + k] = PackedWord(data, n, k)

\* C14: an emit_constant call that defines a constant for a literal of n
\* bytes emits an instruction of 3 + ceil(n/4) words, and the ceil(n/4)
\* literal words it pushes hold the literal 4 bytes per word: word k holds
\* bytes 4k .. 4k+3, and the bytes of the last word beyond the literal are 0.
C14_LiteralWords ==
    [][(last_op'.op = "emit_constant" /\ Len(Appended) = 1)
        => /\ IsOp(Appended[1], Spv.OpConstant)
           /\ WordCount(Appended[1][1])
                = 3 + (bytes(ConstantInputs[last_op'.arg][1]) + 3) \div 4
           /\ LiteralWordsPacked(AppendedTypeWords,
                 ConstantInputs[last_op'.arg][2],
                 bytes(ConstantInputs[last_op'.arg][1]),
                 (bytes(ConstantInputs[last_op'.arg][1]) + 3) \div 4)]_vars

\* the same for the literals of exactly 4 bytes, where the copy loop makes
\* one pass and copies a whole word
C14_FourByteLiteralWords ==
    [][(last_op'.op = "emit_constant" /\ Len(Appended) = 1
          /\ bytes(ConstantInputs[last_op'.arg][1]) = 4)
        => /\ IsOp(Appended[1], Spv.OpConstant)
           /\ WordCount(Appended[1][1]) = 4
           /\ LiteralWordsPacked(AppendedTypeWords,
                 ConstantInputs[last_op'.arg][2], 4, 1)]_vars

(***************************************************************************)
(* C15. Every expression node leaves its own result.                       *)
(***************************************************************************)
RECURSIVE OnlyKinds(_, _)
\* expression e is built of literals, binary operators, casts and the nodes
\* named in others only: "Load", or the name of a call
OnlyKinds(e, others) ==
    CASE e.kind \in {"IntImm", "UIntImm", "FloatImm"} -> TRUE
      [] e.kind = "Load" -> "Load" \in others
      [] e.kind \in BinOpKinds ->
           OnlyKinds(e.a, others) /\ OnlyKinds(e.b, others)
      [] e.kind = "Cast" -> OnlyKinds(e.value, others)
      [] e.kind = "Call" ->
           /\ e.name \in others
           /\ e.name = "bitwise_not" => OnlyKinds(e.args[1], others)
      [] OTHER -> FALSE

\* the kernels that evaluate such an expression
ExpressionKernels(others) ==
    {i \in 1..Len(KernelInputs) :
        /\ KernelInputs[i].body.kind = "Evaluate"
        /\ OnlyKinds(KernelInputs[i].body.value, others)}

\* the identifiers the instructions seg[from] .. seg[to] define
DefinedIn(seg, from, to) ==
    {seg[k][3] : k \in {j \in from..to : j \in 1..Len(seg) /\ Len(seg[j]) >= 3}}

\* e has just been emitted by the step: the current identifier is one the
\* step allocated, and if e is a binary operator its instruction, the last,
\* takes its left operand from the instructions of e.a and its right
\* operand from the instructions of e.b
LeavesOwnResult(e) ==
    /\ emitter'.id \in emitter'.allocated \ emitter.allocated
    /\ e.kind \in BinOpKinds =>
          /\ Len(Appended) = EmittedBy(e)
          /\ Len(Appended[Len(Appended)]) = 5
          /\ Appended[Len(Appended)][3] = emitter'.id
          /\ Appended[Len(Appended)][4]
               \in DefinedIn(Appended, 1, EmittedBy(e.a))
          /\ Appended[Len(Appended)][5]
               \in DefinedIn(Appended, EmittedBy(e.a) + 1,
                             EmittedBy(e.a) + EmittedBy(e.b))

\* C15: after an expression node has been emitted (a literal, a cast, a
\* binary operator, a call, also reinterpret, the thread barrier and an
\* unrecognized call, a load) the current identifier is one this emission
\* allocated, never the leftover of an earlier sibling or statement, and the
\* two operands of a binary instruction are the results of its left and
\* right child.
C15_NodeLeavesOwnResult ==
    [][(/\ last_op'.op = "add_kernel"
        /\ last_op'.arg \in ExpressionKernels({"Load", "bitwise_not",
                               "reinterpret", "gpu_thread_barrier", "abs"})
        /\ emitter'.err = "none")
        => LeavesOwnResult(KernelInputs[last_op'.arg].body.value)]_vars

\* the same for the expressions free of loads and of calls other than
\* bitwise_not
C15_EmittingNodesLeaveOwnResult ==
    [][(/\ last_op'.op = "add_kernel"
        /\ last_op'.arg \in ExpressionKernels({"bitwise_not"})
        /\ emitter'.err = "none")
        => LeavesOwnResult(KernelInputs[last_op'.arg].body.value)]_vars

(***************************************************************************)
(* C16. Termination of the serial loop.                                    *)
(***************************************************************************)
\* C16: the executed loop takes the branch to the merge label, also when
\* min + extent is the largest int32_t: the body runs on no value after
\* min + extent, so on at most the extent + 1 values min .. min + extent.
C16_LoopLeavesAfterMax ==
    pc > 0 =>
       /\ Len(visited) <= loop.extent + 1
       /\ \A k \in 1..(Len(visited) - 1) :
             visited[k] # loop.min + loop.extent

\* what the instructions do when min + extent is the largest int32_t: the
\* body runs on min .. min + extent and then on the values from the
\* smallest int32_t upwards, the loop test never failing
C16_IndexWrapsPastMax ==
    pc > 0 =>
       /\ \A k \in 1..Len(visited) :
             visited[k] = IF k <= loop.extent + 1 THEN loop.min + k - 1
                          ELSE (-Int32Max - 1) + (k - loop.extent - 2)
       /\ ~Halted

\* the loops over min .. min + extent below the largest int32_t do reach
\* the end of their instructions
C16_OrdinaryLoopsTerminate == (pc = 1) ~> Halted

====
